---- MODULE Spec2Model ----
(***************************************************************************)
(* Streaming deserializer of concatenated USPTO patent-grant records       *)
(* (src/src/deserialize.rs, src/src/util.rs).                              *)
(*                                                                         *)
(* The quick_xml reader is modelled as a forward cursor `pos` over a       *)
(* sequence of lexical events `stream`; past the last event every read     *)
(* returns Eof.  Each action is one read_event call of the deserializer    *)
(* together with the match arm that handles the event, including the       *)
(* nested read_text calls and every return path up to Iterator::next.      *)
(***************************************************************************)
EXTENDS Integers, Sequences, FiniteSets, TLC

\* ------------------------------------------------------------------ bounds
MaxRecords == 2
MaxSections == 2
MaxClaims == 2
\* calls of next() per run: enough to read every record and see the end twice
MaxCalls == MaxRecords + 2

\* ------------------------------------------------------------ lexical events
\* k: kind, n: element name or text content, d: tokens of a processing
\* instruction (its data split at whitespace)
Ev(k, n, d) == [k |-> k, n |-> n, d |-> d]
Decl == Ev("Decl", "", <<>>)
DocType == Ev("DocType", "", <<>>)
Eof == Ev("Eof", "", <<>>)
LexErr == Ev("Err", "", <<>>)
Start(n) == Ev("Start", n, <<>>)
End(n) == Ev("End", n, <<>>)
Empty(n) == Ev("Empty", n, <<>>)
Text(t) == Ev("Text", t, <<>>)
PI(d) == Ev("PI", "", d)

LeadTok == "end=\"lead\""
TailTok == "end=\"tail\""

\* The bytes read_event appends to the buffer it is given, as tokens: the
\* reader stores what stands between the angle brackets, or the raw text.
Raw(e) ==
    CASE e.k = "Text" -> <<e.n>>
      [] e.k = "Start" -> <<e.n>>
      [] e.k = "End" -> <<"/", e.n>>
      [] e.k = "Empty" -> <<e.n, "/">>
      [] e.k = "PI" -> <<"?">> \o e.d \o <<"?">>
      [] e.k = "Decl" -> <<"?", "xml", "?">>
      [] e.k = "DocType" -> <<"!", "DOCTYPE">>
      [] OTHER -> <<>>

\* ------------------------------------------------------------------- names
Root == "us-patent-grant"
ClaimStatement == "us-claim-statement"
Claims == "claims"
Claim == "claim"
ClaimTextName == "claim-text"
Biblio == "us-bibliographic-data-grant"
PubRef == "publication-reference"
AppRef == "application-reference"
SeriesCode == "us-application-series-code"
Locarno == "classification-locarno"
National == "classification-national"
DocumentId == "document-id"

\* ------------------------------------------------------------- data structs
NoneStr == [some |-> FALSE, v |-> ""]
Some(t) == [some |-> TRUE, v |-> t]

DefaultDocumentId == [country |-> "", doc_number |-> "", kind |-> NoneStr, date |-> ""]
DefaultClassificationLocarno == [edition |-> "", main_classification |-> ""]
DefaultClassificationNational ==
    [country |-> "", additional_info |-> "", main_classification |-> "",
     further_classification |-> NoneStr]
DefaultBibliographicDataGrant ==
    [publication_reference |-> DefaultDocumentId,
     application_reference |-> DefaultDocumentId,
     us_application_series_code |-> "",
     classification_locarno |-> DefaultClassificationLocarno,
     classification_national |-> DefaultClassificationNational]
EmptyMap == [x \in {} |-> <<>>]
DefaultPatentGrant ==
    [us_bibliographic_data_grant |-> DefaultBibliographicDataGrant,
     descriptions |-> EmptyMap,
     us_claim_statement |-> "",
     claims |-> <<>>]

\* ------------------------------------------------------------------ inputs
ClaimTextPool == <<"claim one", "claim two", "claim three", "claim four">>

Field(n, t) == <<Start(n), Text(t), End(n)>>

ClaimStatementSec == Field(ClaimStatement, "What is claimed is")

ClaimSec(i) ==
    <<Start(Claim), Start(ClaimTextName), Text(ClaimTextPool[i]),
      End(ClaimTextName), End(Claim)>>

RECURSIVE ClaimList(_)
ClaimList(k) == IF k = 0 THEN <<>> ELSE ClaimList(k - 1) \o ClaimSec(k)

ClaimsSec(k) == <<Start(Claims)>> \o ClaimList(k) \o <<End(Claims)>>

TextBlockFlat ==
    <<PI(<<"BRFSUM", "description=\"Brief", "Summary\"", LeadTok>>),
      Start("p"), Text("summary"), End("p"),
      PI(<<"BRFSUM", "description=\"Brief", "Summary\"", TailTok>>)>>

TextBlockNested ==
    <<PI(<<"DETDESC", LeadTok>>), Text("detail one"),
      PI(<<"in-line-formulae", LeadTok>>), Text("formula"),
      PI(<<"in-line-formulae", TailTok>>), Text("detail two"),
      PI(<<"DETDESC", TailTok>>)>>

DocIdSec(c, n, withKind, dt) ==
    <<Start(DocumentId)>> \o Field("country", c) \o Field("doc-number", n)
        \o (IF withKind THEN Field("kind", "B2") ELSE <<>>)
        \o Field("date", dt) \o <<End(DocumentId)>>

BiblioPubSec(withKind) ==
    <<Start(Biblio), Start(PubRef)>> \o DocIdSec("US", "1234567", withKind, "20200101")
        \o <<End(PubRef), End(Biblio)>>

BiblioAppSec ==
    <<Start(Biblio), Start(AppRef)>> \o DocIdSec("EP", "7654321", FALSE, "20190202")
        \o <<End(AppRef)>> \o Field(SeriesCode, "29") \o <<End(Biblio)>>

BiblioClassSec ==
    <<Start(Biblio), Start(Locarno)>> \o Field("edition", "10")
        \o Field("main-classification", "0101") \o <<End(Locarno), Start(National)>>
        \o Field("country", "US") \o Field("additional-info", "unstructured")
        \o Field("main-classification", "D 1100")
        \o Field("further-classification", "D 1101")
        \o <<End(National), End(Biblio)>>

Sections ==
    {ClaimStatementSec, TextBlockFlat, TextBlockNested,
     BiblioPubSec(TRUE), BiblioPubSec(FALSE), BiblioAppSec, BiblioClassSec}
        \cup {ClaimsSec(k) : k \in 0..MaxClaims}

RECURSIVE Flatten(_)
Flatten(ss) == IF ss = <<>> THEN <<>> ELSE Head(ss) \o Flatten(Tail(ss))

\* one record: declaration, doctype, root element around its sections
Record(secs) == <<Decl, DocType, Start(Root)>> \o Flatten(secs) \o <<End(Root)>>

RecordsWith(k) == {Record(s) : s \in [1..k -> Sections]}

\* the streams of exactly n well-formed records holding at most s sections
RECURSIVE WellFormed(_, _)
WellFormed(n, s) ==
    IF n = 0 THEN {<<>>}
    ELSE UNION {{r \o rest : r \in RecordsWith(k), rest \in WellFormed(n - 1, s - k)} :
                k \in 0..s}

WellFormedStreams == UNION {WellFormed(n, MaxSections) : n \in 0..MaxRecords}

\* the events a damaged stream may hold in place of the expected one
Names ==
    {Root, ClaimStatement, Claims, Claim, ClaimTextName, Biblio, PubRef, AppRef,
     SeriesCode, Locarno, National, DocumentId, "country", "doc-number", "kind", "date",
     "edition", "main-classification", "additional-info", "further-classification",
     "drawings"}

Alphabet ==
    {Decl, DocType, LexErr, Text("stray")}
        \cup {Start(n) : n \in Names} \cup {End(n) : n \in Names}
        \cup {Empty(n) : n \in {"drawings", "kind"}}
        \cup {PI(<<>>), PI(<<"BRFSUM", LeadTok>>), PI(<<"RELAPP", TailTok>>),
              PI(<<"BRFSUM", "end=\"other\"">>), PI(<<"processing">>)}

\* a record with one section, with one event replaced, removed or everything
\* from one event on cut off
Replace(s, i, e) == [s EXCEPT ![i] = e]
Remove(s, i) == SubSeq(s, 1, i - 1) \o SubSeq(s, i + 1, Len(s))
Truncate(s, i) == SubSeq(s, 1, i - 1)

DamagedStreams ==
    UNION {UNION {{Replace(r, i, e) : e \in Alphabet \ {r[i]}}
                    \cup {Remove(r, i), Truncate(r, i)} : i \in 1..Len(r)} :
           r \in RecordsWith(1)}

\* a record whose one section lies inside an element the top-level loop does
\* not know
UnknownSec(sec) == <<Start("drawings")>> \o sec \o <<End("drawings")>>

UnknownSectionStreams == {Record(<<UnknownSec(sec)>>) : sec \in Sections}

\* ------------------------------------------------------------------- state
VARIABLES
    stream,        \* the lexical events of the input, in order
    wellformed,    \* whether the input was built as a sequence of well-formed records
    pos,           \* rdr: index of the next event to read
    pc,            \* the read_event call the deserializer stands before
    buf,           \* PatentGrants.buf
    text_buf,      \* deser_top_pi's text_buf
    pi_name,       \* deser_top_pi's pi_name
    target,        \* the biblio struct a field mapper fills
    patent_grant,  \* deser_patent_grant's patent_grant
    out,           \* what next() returned so far, with the events each call read
    ev,            \* the event the last read_event returned
    start          \* pos when the running call of next() began

vars == <<stream, wellformed, pos, pc, buf, text_buf, pi_name, target, patent_grant, out, ev, start>>

\* rdr.read_event: the event at the cursor; Eof at and past the end
Cur == IF pos > Len(stream) THEN Eof ELSE stream[pos]
At(s, p) == IF p > Len(s) THEN Eof ELSE s[p]
\* the cursor after reading e: Eof consumes nothing
After(p, e) == IF e.k = "Eof" THEN p ELSE p + 1

Init ==
    /\ \E w \in BOOLEAN :
          /\ wellformed = w
          /\ stream \in (IF w THEN WellFormedStreams
                            ELSE DamagedStreams \cup UnknownSectionStreams)
    /\ pos = 1
    /\ pc = "idle"
    /\ buf = <<>>
    /\ text_buf = <<>>
    /\ pi_name = ""
    /\ target = ""
    /\ patent_grant = DefaultPatentGrant
    /\ out = <<>>
    /\ ev = Ev("None", "", <<>>)
    /\ start = 1

\* ---------------------------------------------------------- quick_xml reads
\* Reader::read_to_end(end): skips events up to the end tag that closes the
\* element, counting nested elements of the same name
RECURSIVE ReadToEnd(_, _, _, _)
ReadToEnd(s, end, p, depth) ==
    LET e == At(s, p) IN
    CASE e.k = "Eof" -> [ok |-> FALSE, err |-> "UnexpectedEof", pos |-> p]
      [] e.k = "Err" -> [ok |-> FALSE, err |-> "lexical", pos |-> p + 1]
      [] e.k = "End" /\ e.n = end ->
            IF depth = 0 THEN [ok |-> TRUE, err |-> "", pos |-> p + 1]
            ELSE ReadToEnd(s, end, p + 1, depth - 1)
      [] e.k = "Start" /\ e.n = end -> ReadToEnd(s, end, p + 1, depth + 1)
      [] OTHER -> ReadToEnd(s, end, p + 1, depth)

\* Reader::read_text(end): the text event that follows, then everything up to
\* the end tag; the empty string when the end tag follows at once; an error
\* for any other event
ReadText(s, end, p) ==
    LET e == At(s, p) IN
    CASE e.k = "Text" ->
            LET r == ReadToEnd(s, end, p + 1, 0) IN
            [ok |-> r.ok, txt |-> e.n, err |-> r.err, pos |-> r.pos]
      [] e.k = "End" /\ e.n = end -> [ok |-> TRUE, txt |-> "", err |-> "", pos |-> p + 1]
      [] e.k = "Err" -> [ok |-> FALSE, txt |-> "", err |-> "lexical", pos |-> p + 1]
      [] e.k = "Eof" -> [ok |-> FALSE, txt |-> "", err |-> "UnexpectedEof", pos |-> p]
      [] OTHER -> [ok |-> FALSE, txt |-> "", err |-> "TextNotFound", pos |-> p + 1]

\* deser_text(end, rdr), called with the cursor behind the start tag
deser_text(end, p) == ReadText(stream, end, p)

\* deser_text_from(name, rdr), the field mappers' text capture
deser_text_from(end, p) == ReadText(stream, end, p)

\* ------------------------------------------------------------------ results
\* Error::Deser { src }: the message, with the element and the container a
\* formatted message names
Deser(msg) == [msg |-> msg, elem |-> "", container |-> ""]
DeserIn(msg, elem, container) == [msg |-> msg, elem |-> elem, container |-> container]

NoRet == [kind |-> "NoRet"]
RetNone == [kind |-> "None"]
RetErr(src) == [kind |-> "Err", src |-> src]
RetOk(rec) == [kind |-> "Ok", rec |-> rec]

\* the deserializer's state, as the record an arm of a match updates
cur ==
    [pc |-> pc, pos |-> pos, buf |-> buf, text_buf |-> text_buf, pi_name |-> pi_name,
     target |-> target, patent_grant |-> patent_grant, start |-> start, ret |-> NoRet]

\* (variant: after an error the reader is moved on to the next declaration)
RECURSIVE SkipToDecl(_)
SkipToDecl(p) ==
    IF p > Len(stream) \/ stream[p].k = "Decl" THEN p ELSE SkipToDecl(p + 1)

Return_resync(res, from, p) ==
    LET q == IF res.kind = "Err" THEN SkipToDecl(p) ELSE p IN
    /\ out' = Append(out, res @@ [from |-> from, to |-> q])
    /\ pos' = q
    /\ pc' = "idle"
    /\ buf' = <<>>
    /\ text_buf' = <<>>
    /\ pi_name' = ""
    /\ target' = ""
    /\ patent_grant' = DefaultPatentGrant
    /\ start' = q

\* (variant: the buffer is not cleared when the call returns)
Return_keepBuf(res, from, p) ==
    /\ out' = Append(out, res @@ [from |-> from, to |-> p])
    /\ pos' = p
    /\ pc' = "idle"
    /\ buf' = buf
    /\ text_buf' = <<>>
    /\ pi_name' = ""
    /\ target' = ""
    /\ patent_grant' = DefaultPatentGrant
    /\ start' = p

\* Iterator::next: hands the result of deser_patent_grant to the caller and
\* clears the buffer; the locals of the call are gone
Return(res, from, p) ==
    /\ out' = Append(out, res @@ [from |-> from, to |-> p])
    /\ pos' = p
    /\ pc' = "idle"
    /\ buf' = <<>>
    /\ text_buf' = <<>>
    /\ pi_name' = ""
    /\ target' = ""
    /\ patent_grant' = DefaultPatentGrant
    /\ start' = p

\* one read_event call: the event read and the state its match arm leaves
Step(e, n) ==
    /\ ev' = e
    /\ UNCHANGED <<stream, wellformed>>
    /\ IF n.ret.kind = "NoRet"
       THEN /\ pc' = n.pc
            /\ pos' = n.pos
            /\ buf' = n.buf
            /\ text_buf' = n.text_buf
            /\ pi_name' = n.pi_name
            /\ target' = n.target
            /\ patent_grant' = n.patent_grant
            /\ start' = n.start
            /\ UNCHANGED out
       ELSE Return(n.ret, n.start, n.pos)

\* ------------------------------------------------------------- deser_header
\* the Eof arm of the first match: no input is left, the stream has ended
\* (variant: the end of the input is reported as an error)
HeaderNoInput_error(n) == [ret |-> RetErr(Deser("lexical"))] @@ n

\* (variant: the end of the input yields an empty record)
HeaderNoInput_emptyRecord(n) == [ret |-> RetOk(DefaultPatentGrant)] @@ n

HeaderNoInput(n) == [ret |-> RetNone] @@ n

\* the Ok(_) arm of the first match: any other event is not a declaration
\* (variant: taken for the end of the stream)
HeaderNotDecl_none(n) == [ret |-> RetNone] @@ n

HeaderNotDecl(n) ==
    [ret |-> RetErr(Deser("xml decl not found at head of patent grant xml"))] @@ n

\* first read of deser_header, at the start of a call of next()
HeaderDeclArm(e) ==
    LET n == [pos |-> After(pos, e), buf |-> buf \o Raw(e), start |-> pos] @@ cur IN
    CASE e.k = "Decl" -> [pc |-> "header_doctype"] @@ n
      [] e.k = "Eof" -> HeaderNoInput(n)
      [] e.k = "Err" -> [ret |-> RetErr(Deser("lexical"))] @@ n
      [] OTHER -> HeaderNotDecl(n)

HeaderDecl ==
    /\ pc = "idle"
    /\ Len(out) < MaxCalls
    /\ Step(Cur, HeaderDeclArm(Cur))

\* second read of deser_header; a valid header makes deser_patent_grant clear
\* the buffer and start on a default record
HeaderDocTypeArm(e) ==
    LET n == [pos |-> After(pos, e), buf |-> buf \o Raw(e)] @@ cur IN
    CASE e.k = "DocType" ->
            [pc |-> "top", buf |-> <<>>, patent_grant |-> DefaultPatentGrant] @@ n
      [] e.k = "Eof" -> [ret |-> RetNone] @@ n
      [] e.k = "Err" -> [ret |-> RetErr(Deser("lexical"))] @@ n
      [] OTHER ->
            [ret |-> RetErr(Deser("doctype decl not found at head of patent grant xml"))] @@ n

HeaderDocType ==
    /\ pc = "header_doctype"
    /\ Step(Cur, HeaderDocTypeArm(Cur))

\* ------------------------------------------------------------- deser_top_pi
\* split_whitespace().nth(0) and .last() of the instruction's data
FirstToken(d) == IF d = <<>> THEN NoneStr ELSE Some(d[1])
LastToken(d) == IF d = <<>> THEN NoneStr ELSE Some(d[Len(d)])

\* the head of deser_top_pi, run by the top-level loop on a processing
\* instruction: anything but a lead marker is skipped
\* (variant: the test for a lead marker is left out)
TopPiHead_anyPi(e, n) ==
    IF ~FirstToken(e.d).some THEN [ret |-> RetErr(Deser("No name for PI"))] @@ n
    ELSE [pc |-> "top_pi", text_buf |-> <<>>, pi_name |-> FirstToken(e.d).v] @@ n

TopPiHead(e, n) ==
    IF ~FirstToken(e.d).some THEN [ret |-> RetErr(Deser("No name for PI"))] @@ n
    ELSE IF LastToken(e.d).v # LeadTok THEN n
    ELSE [pc |-> "top_pi", text_buf |-> <<>>, pi_name |-> FirstToken(e.d).v] @@ n

\* descriptions.insert(pi_name, text)
InsertDescription(pg, name, text) ==
    [pg EXCEPT !.descriptions = (name :> text) @@ pg.descriptions]

\* the loop of deser_top_pi: every event is read into text_buf and the first
\* tail marker ends the block
TopPiArm(e) ==
    LET n == [pos |-> After(pos, e), text_buf |-> text_buf \o Raw(e)] @@ cur IN
    CASE e.k = "PI" ->
            IF ~LastToken(e.d).some THEN [ret |-> RetErr(Deser("No end for PI"))] @@ n
            ELSE IF LastToken(e.d).v # TailTok THEN n
            ELSE [pc |-> "top", text_buf |-> <<>>, pi_name |-> "",
                  patent_grant |-> InsertDescription(patent_grant, pi_name, n.text_buf)] @@ n
      [] e.k = "Err" -> [ret |-> RetErr(Deser("lexical"))] @@ n
      [] OTHER -> n

TopPi ==
    /\ pc = "top_pi"
    /\ Step(Cur, TopPiArm(Cur))

\* ------------------------------------------------- deser_patent_grant's loop
\* the End arm: only the root's end tag completes the record
\* (variant: every end tag completes the record)
TopEnd_anyEnd(e, n) == [ret |-> RetOk(patent_grant)] @@ n

TopEnd(e, n) == IF e.n = Root THEN [ret |-> RetOk(patent_grant)] @@ n ELSE n

TopLevelArm(e) ==
    LET n == [pos |-> After(pos, e), buf |-> buf \o Raw(e)] @@ cur IN
    CASE e.k = "PI" -> TopPiHead(e, n)
      [] e.k = "Start" /\ e.n = ClaimStatement ->
            LET t == deser_text(e.n, n.pos) IN
            IF t.ok
            THEN [pos |-> t.pos,
                  patent_grant |-> [patent_grant EXCEPT !.us_claim_statement = t.txt]] @@ n
            ELSE [pos |-> t.pos, ret |-> RetErr(Deser(t.err))] @@ n
      [] e.k = "Start" /\ e.n = Claims -> [pc |-> "claims"] @@ n
      [] e.k = "Start" /\ e.n = Biblio -> [pc |-> "biblio"] @@ n
      [] e.k = "Eof" -> [ret |-> RetOk(patent_grant)] @@ n
      [] e.k = "End" -> TopEnd(e, n)
      [] e.k = "Err" -> [ret |-> RetErr(Deser("lexical"))] @@ n
      [] OTHER -> n

TopLevel ==
    /\ pc = "top"
    /\ Step(Cur, TopLevelArm(Cur))

\* -------------------------------------------------------------- deser_claims
\* the outer read of the loop: a claim start goes on to its child, anything
\* else leaves the loop
ClaimsArm(e) ==
    LET n == [pos |-> After(pos, e), buf |-> buf \o Raw(e)] @@ cur IN
    CASE e.k = "Start" /\ e.n = Claim -> [pc |-> "claim"] @@ n
      [] e.k = "Err" -> [ret |-> RetErr(Deser("lexical"))] @@ n
      [] OTHER -> [pc |-> "top"] @@ n

ClaimsLoop ==
    /\ pc = "claims"
    /\ Step(Cur, ClaimsArm(Cur))

\* the inner read: the claim-text child is pushed, anything else leaves the loop
ClaimArm(e) ==
    LET n == [pos |-> After(pos, e), buf |-> buf \o Raw(e)] @@ cur IN
    CASE e.k = "Start" /\ e.n = ClaimTextName ->
            LET t == deser_text(e.n, n.pos) IN
            IF t.ok
            THEN [pc |-> "claims", pos |-> t.pos,
                  patent_grant |->
                      [patent_grant EXCEPT !.claims = Append(patent_grant.claims, t.txt)]] @@ n
            ELSE [pos |-> t.pos, ret |-> RetErr(Deser(t.err))] @@ n
      [] e.k = "Err" -> [ret |-> RetErr(Deser("lexical"))] @@ n
      [] OTHER -> [pc |-> "top"] @@ n

ClaimChild ==
    /\ pc = "claim"
    /\ Step(Cur, ClaimArm(Cur))

\* -------------------------------------------------------------- deser_biblio
SetBiblio(pg, field, v) ==
    [pg EXCEPT !.us_bibliographic_data_grant =
        [pg.us_bibliographic_data_grant EXCEPT ![field] = v]]

BiblioArm(e) ==
    LET n == [pos |-> After(pos, e), buf |-> buf \o Raw(e)] @@ cur IN
    CASE e.k = "Start" /\ e.n = PubRef ->
            [pc |-> "doc_id_open", target |-> "publication_reference"] @@ n
      [] e.k = "Start" /\ e.n = AppRef ->
            [pc |-> "doc_id_open", target |-> "application_reference"] @@ n
      [] e.k = "Start" /\ e.n = SeriesCode ->
            LET t == deser_text(e.n, n.pos) IN
            IF t.ok
            THEN [pos |-> t.pos,
                  patent_grant |->
                      SetBiblio(patent_grant, "us_application_series_code", t.txt)] @@ n
            ELSE [pos |-> t.pos, ret |-> RetErr(Deser(t.err))] @@ n
      [] e.k = "Start" /\ e.n = Locarno ->
            [pc |-> "class_locarno", target |-> "classification_locarno"] @@ n
      [] e.k = "Start" /\ e.n = National ->
            [pc |-> "class_national", target |-> "classification_national"] @@ n
      [] e.k = "End" /\ e.n = Biblio -> [pc |-> "top"] @@ n
      [] e.k = "Err" -> [ret |-> RetErr(Deser("lexical"))] @@ n
      [] OTHER -> n

BiblioLoop ==
    /\ pc = "biblio"
    /\ Step(Cur, BiblioArm(Cur))

\* ------------------------------------------------------------- field mappers
\* the tables the macros are called with: xml name -> struct field
\* (variant: country and date mapped onto each other's field)
DocIdRequired_swapped ==
    ("country" :> "date") @@ ("doc-number" :> "doc_number") @@ ("date" :> "country")

DocIdRequired == ("country" :> "country") @@ ("doc-number" :> "doc_number") @@ ("date" :> "date")
DocIdOptional == ("kind" :> "kind")
LocarnoRequired == ("edition" :> "edition") @@ ("main-classification" :> "main_classification")
LocarnoOptional == [x \in {} |-> ""]
NationalRequired ==
    ("country" :> "country") @@ ("additional-info" :> "additional_info")
        @@ ("main-classification" :> "main_classification")
NationalOptional == ("further-classification" :> "further_classification")

\* $data_struct.$field = value, on the struct the mapper was called for
SetField(pg, tgt, field, v) ==
    SetBiblio(pg, tgt, [pg.us_bibliographic_data_grant[tgt] EXCEPT ![field] = v])

\* the default arm of the mappers' match on the child's name
\* (variant: an unknown child is skipped, as deser_biblio does)
UnrecognizedElement_skip(e, xml_element, n) == n

UnrecognizedElement(e, xml_element, n) ==
    [ret |-> RetErr(DeserIn("unrecognized element", e.n, xml_element))] @@ n

\* the loop shared by parse_struct_update and parse_struct_update_from: a
\* known child is captured, an unknown one is an error, the end tag of the
\* container and every other event leave the loop
MapperArm(e, xml_element, required, optional) ==
    LET n == [pos |-> After(pos, e), buf |-> buf \o Raw(e)] @@ cur IN
    CASE e.k = "Start" /\ e.n \in DOMAIN required ->
            LET t == deser_text_from(e.n, n.pos) IN
            IF t.ok
            THEN [pos |-> t.pos,
                  patent_grant |-> SetField(patent_grant, target, required[e.n], t.txt)] @@ n
            ELSE [pos |-> t.pos, ret |-> RetErr(Deser(t.err))] @@ n
      [] e.k = "Start" /\ e.n \notin DOMAIN required /\ e.n \in DOMAIN optional ->
            LET t == deser_text_from(e.n, n.pos) IN
            IF t.ok
            THEN [pos |-> t.pos,
                  patent_grant |->
                      SetField(patent_grant, target, optional[e.n], Some(t.txt))] @@ n
            ELSE [pos |-> t.pos, ret |-> RetErr(Deser(t.err))] @@ n
      [] e.k = "Start" /\ e.n \notin DOMAIN required /\ e.n \notin DOMAIN optional ->
            UnrecognizedElement(e, xml_element, n)
      [] e.k = "End" /\ e.n # xml_element -> n
      [] OTHER -> [pc |-> "biblio", target |-> ""] @@ n

\* parse_struct_update's first read: the document-id wrapper
DocIdOpenArm(e) ==
    LET n == [pos |-> After(pos, e), buf |-> buf \o Raw(e)] @@ cur IN
    CASE e.k = "Start" /\ e.n = DocumentId -> [pc |-> "doc_id"] @@ n
      [] e.k = "Start" /\ e.n # DocumentId ->
            [ret |-> RetErr(DeserIn("found element, not", e.n, DocumentId))] @@ n
      [] e.k = "Err" -> [ret |-> RetErr(Deser("lexical"))] @@ n
      [] OTHER -> [ret |-> RetErr(DeserIn("found non-start-element besides", "", DocumentId))] @@ n

DocIdOpen ==
    /\ pc = "doc_id_open"
    /\ Step(Cur, DocIdOpenArm(Cur))

\* deser_doc_id
DocIdArm(e) == MapperArm(e, DocumentId, DocIdRequired, DocIdOptional)

DocIdLoop ==
    /\ pc = "doc_id"
    /\ Step(Cur, DocIdArm(Cur))

\* deser_class_locarno
ClassLocarnoArm(e) == MapperArm(e, Locarno, LocarnoRequired, LocarnoOptional)

ClassLocarnoLoop ==
    /\ pc = "class_locarno"
    /\ Step(Cur, ClassLocarnoArm(Cur))

\* deser_class_national
ClassNationalArm(e) == MapperArm(e, National, NationalRequired, NationalOptional)

ClassNationalLoop ==
    /\ pc = "class_national"
    /\ Step(Cur, ClassNationalArm(Cur))

\* ------------------------------------------------------------ specification
Next ==
    \/ HeaderDecl
    \/ HeaderDocType
    \/ TopLevel
    \/ TopPi
    \/ ClaimsLoop
    \/ ClaimChild
    \/ BiblioLoop
    \/ DocIdOpen
    \/ DocIdLoop
    \/ ClassLocarnoLoop
    \/ ClassNationalLoop

Spec == Init /\ [][Next]_vars

\* the deserializer runs whenever it can take a step: a call of next() that is
\* under way is not suspended
FairSpec == Spec /\ WF_vars(Next)

TypeOK ==
    /\ pc \in {"idle", "header_doctype", "top", "top_pi", "claims", "claim", "biblio",
               "doc_id_open", "doc_id", "class_locarno", "class_national"}
    /\ pos \in 1..(Len(stream) + 1)
    /\ Len(out) <= MaxCalls
    /\ \A i \in 1..Len(out) : out[i].kind \in {"Ok", "Err", "None"}

\* =================================================================== claims
\* the header-delimited regions of a stream: the positions of its declarations
RECURSIVE DeclsFrom(_, _)
DeclsFrom(s, i) ==
    IF i > Len(s) THEN <<>>
    ELSE IF s[i].k = "Decl" THEN <<i>> \o DeclsFrom(s, i + 1)
    ELSE DeclsFrom(s, i + 1)

DeclPositions(s) == DeclsFrom(s, 1)
\* the i-th region, given the declarations' positions d: from its declaration
\* up to the next one, or to the end of the stream
RegionStart(d, i) == d[i]
RegionEnd(s, d, i) == IF i < Len(d) THEN d[i + 1] ELSE Len(s) + 1

\* no call of next() is under way: out holds what the calls so far returned
Returned == pc = "idle"

\* whether the events from..to-1 of the stream hold e
Holds(s, from, to, e) == \E p \in from..(to - 1) : p <= Len(s) /\ s[p] = e

\* C1: on a stream of N well-formed records, the calls of next() return N
\* records and then the end of the stream, never an error; the n-th call reads
\* exactly the n-th header-delimited region and its record carries that
\* region's claim statement.
C1_WellFormedStreamYieldsItsRecords ==
    (Returned /\ wellformed) =>
        LET d == DeclPositions(stream) IN
        \A i \in 1..Len(out) :
            IF i <= Len(d)
            THEN /\ out[i].kind = "Ok"
                 /\ out[i].from = RegionStart(d, i)
                 /\ out[i].to = RegionEnd(stream, d, i)
                 /\ out[i].rec.us_claim_statement =
                        (IF Holds(stream, out[i].from, out[i].to, Start(ClaimStatement))
                         THEN "What is claimed is" ELSE "")
            ELSE /\ out[i].kind = "None"
                 /\ out[i].from = Len(stream) + 1

\* two records were returned, the first with a claim statement and the second
\* without, and then the end of the stream
C1_Witness ==
    /\ wellformed
    /\ Len(DeclPositions(stream)) = 2
    /\ Len(out) = 3
    /\ out[1].kind = "Ok" /\ out[1].rec.us_claim_statement = "What is claimed is"
    /\ out[2].kind = "Ok" /\ out[2].rec.us_claim_statement = ""
    /\ out[2].rec.claims # <<>>
    /\ out[3].kind = "None"

\* the texts of the claim containers among the events from..to-1, in order
RECURSIVE ClaimTextsIn(_, _, _)
ClaimTextsIn(s, from, to) ==
    IF from + 2 >= to THEN <<>>
    ELSE IF s[from] = Start(Claim) /\ s[from + 1] = Start(ClaimTextName)
            /\ s[from + 2].k = "Text"
    THEN <<s[from + 2].n>> \o ClaimTextsIn(s, from + 3, to)
    ELSE ClaimTextsIn(s, from + 1, to)

\* C2 (as stated): the claims of a returned record are the texts of the claim
\* containers of its region, one entry per container, in document order.
C2_ClaimsMatchContainers ==
    (Returned /\ wellformed) =>
        \A i \in 1..Len(out) :
            out[i].kind = "Ok" =>
                out[i].rec.claims = ClaimTextsIn(stream, out[i].from, out[i].to)

\* C3 (as stated): a call that reads a declaration and then anything but a
\* doctype, the end of the input included, returns an error.
C3_MissingDocTypeIsError ==
    \A i \in 1..Len(out) :
        (/\ At(stream, out[i].from).k = "Decl"
         /\ At(stream, out[i].from + 1).k # "DocType")
            => out[i].kind = "Err"

\* C4 (as stated): when the end of the input is read after a valid header, a
\* call that returns on it returns an error, never a record.
C4_EofInsideRecordIsError ==
    [][(/\ pc \notin {"idle", "header_doctype"}
        /\ Cur.k = "Eof"
        /\ pc' = "idle")
            => out'[Len(out')].kind = "Err"]_vars

\* whether, since the running call began, a lead marker of the given name was read
LeadRead(name) ==
    \E q \in start..(pos - 1) :
        /\ stream[q].k = "PI"
        /\ FirstToken(stream[q].d).v = name
        /\ LastToken(stream[q].d).v = LeadTok

\* C5 (as stated): while a block opened by a lead marker named X is being
\* extracted, the tail marker of a lead/tail pair of another name Y inside the
\* block is content and does not end the extraction.
C5_OtherNameTailIsContent ==
    [][(/\ pc = "top_pi"
        /\ Cur.k = "PI"
        /\ LastToken(Cur.d).v = TailTok
        /\ FirstToken(Cur.d).v # pi_name
        /\ LeadRead(FirstToken(Cur.d).v))
            => (pc' = "top_pi" /\ text_buf' = text_buf \o Raw(Cur))]_vars

\* C6 (as stated): reading the end of the input inside a text block ends the
\* extraction and the call, which returns an error.
C6_EofInTextBlockIsError ==
    [][(pc = "top_pi" /\ Cur.k = "Eof")
            => (/\ pc' = "idle"
                /\ Len(out') = Len(out) + 1
                /\ out'[Len(out')].kind = "Err")]_vars

\* the container and the child names of the field mapper that runs at a
\* position of the deserializer
MapperContainer(at) ==
    CASE at = "doc_id" -> DocumentId
      [] at = "class_locarno" -> Locarno
      [] at = "class_national" -> National

MapperChildren(at) ==
    CASE at = "doc_id" -> DOMAIN DocIdRequired \cup DOMAIN DocIdOptional
      [] at = "class_locarno" -> DOMAIN LocarnoRequired \cup DOMAIN LocarnoOptional
      [] at = "class_national" -> DOMAIN NationalRequired \cup DOMAIN NationalOptional

\* C7: a field mapper that reads the start of a child it has no slot for ends
\* the call with an error that names the child and the container; no record
\* is returned.
C7_UnknownChildIsError ==
    [][(/\ pc \in {"doc_id", "class_locarno", "class_national"}
        /\ Cur.k = "Start"
        /\ Cur.n \notin MapperChildren(pc))
            => (/\ pc' = "idle"
                /\ Len(out') = Len(out) + 1
                /\ out'[Len(out')].kind = "Err"
                /\ out'[Len(out')].src.elem = Cur.n
                /\ out'[Len(out')].src.container = MapperContainer(pc))]_vars

\* a call ended on an unknown child of a classification-national container
C7_Witness ==
    /\ pc = "idle"
    /\ Len(out) = 1
    /\ out[1].kind = "Err"
    /\ out[1].src.msg = "unrecognized element"
    /\ out[1].src.container = National
    /\ out[1].src.elem = ev.n
    /\ ev.k = "Start"

\* C8 (as stated): a call that read a lexical error does not return a record.
C8_LexicalErrorIsNotSwallowed ==
    \A i \in 1..Len(out) :
        out[i].kind = "Ok" => ~Holds(stream, out[i].from, out[i].to, LexErr)

\* C9 (as stated): the claims extractor that meets the start of an element
\* that is no claim returns without error, with the claims read so far, and
\* leaves the element to the top-level dispatch.
C9_NonClaimIsLeftForDispatch ==
    [][(pc = "claims" /\ Cur.k = "Start" /\ Cur.n # Claim)
            => (/\ pc' = "top"
                /\ pos' = pos
                /\ out' = out
                /\ patent_grant' = patent_grant)]_vars

\* how many of the events from..to-1 are e
RECURSIVE CountIn(_, _, _, _)
CountIn(s, from, to, e) ==
    IF from >= to \/ from > Len(s) THEN 0
    ELSE (IF s[from] = e THEN 1 ELSE 0) + CountIn(s, from + 1, to, e)

\* C10: the record of a region with one publication-reference holds the
\* country, number and date of its document-id, and its kind exactly when the
\* document-id has a kind element.
C10_DocumentIdRoundTrip ==
    (Returned /\ wellformed) =>
        \A i \in 1..Len(out) :
            (/\ out[i].kind = "Ok"
             /\ CountIn(stream, out[i].from, out[i].to, Start(PubRef)) = 1)
                => LET id == out[i].rec.us_bibliographic_data_grant.publication_reference
                       hasKind == Holds(stream, out[i].from, out[i].to, Start("kind"))
                   IN  /\ id.country = "US"
                       /\ id.doc_number = "1234567"
                       /\ id.date = "20200101"
                       /\ id.kind = (IF hasKind THEN Some("B2") ELSE NoneStr)

\* a first record with a kind and a second one without were returned
C10_Witness ==
    /\ wellformed
    /\ Len(out) >= 2
    /\ out[1].kind = "Ok"
    /\ out[1].rec.us_bibliographic_data_grant.publication_reference =
           [country |-> "US", doc_number |-> "1234567", kind |-> Some("B2"),
            date |-> "20200101"]
    /\ out[2].kind = "Ok"
    /\ out[2].rec.us_bibliographic_data_grant.publication_reference =
           [country |-> "US", doc_number |-> "1234567", kind |-> NoneStr,
            date |-> "20200101"]

\* C11: a call of next() whose first read meets the end of the input returns
\* the end-of-stream signal, not an error, and reads nothing.
C11_EofAtHeadIsEndOfStream ==
    Returned =>
        \A i \in 1..Len(out) :
            out[i].from = Len(stream) + 1
                => (out[i].kind = "None" /\ out[i].to = out[i].from)

\* a record was returned and the next call met the end of the input
C11_Witness ==
    /\ Returned
    /\ Len(out) = 2
    /\ out[1].kind = "Ok"
    /\ out[2].kind = "None"
    /\ out[2].from = Len(stream) + 1
    /\ ev.k = "Eof"

\* C12: a call of next() whose first read meets an event that is neither a
\* declaration nor the end of the input (an element start or end, a text, a
\* processing instruction or a doctype) returns the error of the missing
\* declaration, after that one event, and no record.
C12_NoDeclarationIsError ==
    Returned =>
        \A i \in 1..Len(out) :
            At(stream, out[i].from).k \in {"Start", "End", "Empty", "Text", "PI", "DocType"}
                => /\ out[i].kind = "Err"
                   /\ out[i].src.msg = "xml decl not found at head of patent grant xml"
                   /\ out[i].to = out[i].from + 1

\* the first call met a doctype where the declaration was expected
C12_Witness ==
    /\ Returned
    /\ Len(out) = 1
    /\ At(stream, 1).k = "DocType"
    /\ out[1].kind = "Err"
    /\ out[1].src.msg = "xml decl not found at head of patent grant xml"

\* C13 (as stated): a field mapper goes back to its caller without error only
\* on the end tag of its container.
C13_MapperEndsOnContainerEnd ==
    [][(/\ pc \in {"doc_id", "class_locarno", "class_national"}
        /\ pc' = "biblio")
            => Cur = End(MapperContainer(pc))]_vars

\* whether the last event the call of result r read is the one its error
\* reports: the event at which each error of the deserializer is raised
ErrorAtLastEvent(r) ==
    LET last == At(stream, r.to - 1)
        m == r.src.msg
    IN  CASE m = "lexical" -> last = LexErr
          [] m = "xml decl not found at head of patent grant xml" ->
                r.to = r.from + 1 /\ last.k \notin {"Decl", "Err"}
          [] m = "doctype decl not found at head of patent grant xml" ->
                r.to = r.from + 2 /\ last.k \notin {"DocType", "Err"}
          [] m \in {"No name for PI", "No end for PI"} -> last = PI(<<>>)
          [] m = "TextNotFound" -> last.k \notin {"Text", "Err"}
          [] m = "UnexpectedEof" -> r.to = Len(stream) + 1
          [] m \in {"unrecognized element", "found element, not"} ->
                last = Start(r.src.elem)
          [] m = "found non-start-element besides" ->
                r.to = Len(stream) + 1 \/ last.k \notin {"Start", "Err"}
          [] OTHER -> FALSE

\* C14: a call that returns an error has read nothing behind the event at
\* which the error was raised, and the next call starts its header scan at the
\* event that follows, wherever in the record that is.
C14_ErrorLeavesCursorInPlace ==
    Returned =>
        \A i \in 1..Len(out) :
            out[i].kind = "Err"
                => /\ out[i].to > out[i].from \/ out[i].to = Len(stream) + 1
                   /\ ErrorAtLastEvent(out[i])
                   /\ i < Len(out) => out[i + 1].from = out[i].to

\* an error inside a record, and the next call failing on the event behind it
C14_Witness ==
    /\ Returned
    /\ Len(out) = 2
    /\ out[1].kind = "Err"
    /\ out[1].src.msg = "unrecognized element"
    /\ out[1].to + 1 < Len(stream)
    /\ out[2].kind = "Err"
    /\ out[2].from = out[1].to
    /\ out[2].to = out[1].to + 1
    /\ out[2].src.msg = "xml decl not found at head of patent grant xml"

\* a step that only moves the reader on: no result, no text block begun, the
\* record as it was
Ignored ==
    /\ pc' = "top"
    /\ pos' = pos + 1
    /\ out' = out
    /\ patent_grant' = patent_grant
    /\ text_buf' = text_buf
    /\ pi_name' = pi_name

\* C15 (as stated): every processing instruction read by the top-level loop
\* whose last token is not the lead token, one without tokens included, is
\* ignored.
C15_NonLeadPiIsIgnored ==
    [][(pc = "top" /\ Cur.k = "PI" /\ LastToken(Cur.d).v # LeadTok) => Ignored]_vars

\* C15 (amended): a processing instruction read by the top-level loop that has
\* a token and whose last token is not the lead token is ignored; one without
\* tokens ends the call with the error "No name for PI".
C15_NamedNonLeadPiIsIgnored ==
    [][(pc = "top" /\ Cur.k = "PI" /\ LastToken(Cur.d).v # LeadTok)
            => IF Cur.d # <<>>
               THEN Ignored
               ELSE /\ pc' = "idle"
                    /\ out' = Append(out, RetErr(Deser("No name for PI"))
                                            @@ [from |-> start, to |-> pos + 1])]_vars

\* a tail marker met by the top-level loop has just been skipped
C15_Witness ==
    /\ pc = "top"
    /\ ev.k = "PI"
    /\ LastToken(ev.d).v = TailTok
    /\ patent_grant = DefaultPatentGrant
    /\ text_buf = <<>>
    /\ out = <<>>

\* C16 (as stated): the text stored for a block is what was read between the
\* lead marker and the tail marker that ends the block, under the lead's name;
\* the tail marker itself is not in it.
C16_StoredTextExcludesTail ==
    [][(pc = "top_pi" /\ pc' = "top")
            => /\ pi_name \in DOMAIN patent_grant'.descriptions
               /\ patent_grant'.descriptions[pi_name] = text_buf]_vars

\* C17: whenever a call has returned, with a record, an error or the end of the
\* stream, the buffer is empty.
C17_BufferEmptyAfterReturn ==
    Returned => buf = <<>>

\* a record, then an error, then the end of the stream have been returned
C17_Witness ==
    /\ Returned
    /\ Len(out) = 3
    /\ out[1].kind = "Ok"
    /\ out[1].to > out[1].from + 3
    /\ out[2].kind = "Err"
    /\ out[3].kind = "None"
    /\ buf = <<>>

\* C18 (as stated): every call returns after finitely many reads. A call in
\* progress always has a step that reads a further event or returns: it is
\* never left with only the step that reads the end of the input again and
\* changes nothing.
C18_CallInProgressAdvances ==
    Returned \/ ENABLED <<Next>>_vars

\* C19: once a call has returned the end of the stream, every later call
\* returns the end of the stream too, never a record or an error.
C19_EndOfStreamIsSticky ==
    Returned =>
        \A i \in 1..Len(out) : \A j \in i..Len(out) :
            out[i].kind = "None" => out[j].kind = "None"

\* a record, then the end of the stream twice, the second call having read the
\* end of the input again
C19_Witness ==
    /\ Returned
    /\ Len(out) = 3
    /\ out[1].kind = "Ok"
    /\ out[2].kind = "None"
    /\ out[3].kind = "None"
    /\ out[3].from = Len(stream) + 1
    /\ ev.k = "Eof"

\* the elements open after the events from p up to q, innermost last
RECURSIVE Open(_, _)
Open(p, q) ==
    IF q <= p THEN <<>>
    ELSE LET st == Open(p, q - 1)
             e == stream[q - 1]
         IN  IF e.k = "Start" THEN Append(st, e.n)
             ELSE IF e.k = "End" /\ st # <<>> /\ st[Len(st)] = e.n
                  THEN SubSeq(st, 1, Len(st) - 1)
                  ELSE st

\* C20 (as stated): the start tag of a claim statement, of the claims or of the
\* bibliographic data that lies inside an unrecognized child of the root is
\* passed over by the top-level loop: no extractor runs and the record stays
\* as it is.
C20_NestedSectionIsNotExtracted ==
    [][(/\ pc = "top"
        /\ Cur.k = "Start"
        /\ Cur.n \in {ClaimStatement, Claims, Biblio}
        /\ LET st == Open(start, pos) IN
              /\ Len(st) >= 2
              /\ st[1] = Root
              /\ st[2] \notin {ClaimStatement, Claims, Biblio})
            => Ignored]_vars

====
